---- MODULE Spec2Model ----
(***************************************************************************)
(* Model of assets/create_assets.py, the "Frozen Silence" asset generator. *)
(*                                                                         *)
(* Every function of the script is a frame (a record of its locals and a   *)
(* program counter) stepped by one action per statement or loop iteration. *)
(* Each function has a specification of its own, whose Init draws the      *)
(* arguments from the values its callers pass.  Draws from the random      *)
(* stream are existential choices.                                         *)
(***************************************************************************)
EXTENDS Integers, Sequences, FiniteSets, TLC

VARIABLES
    an,     \* frame of add_noise(img, intensity)
    cg,     \* frame of create_gradient(width, height, color1, color2, direction)
    sil,    \* frame of draw_building_silhouette(draw, x, width, height, base_y, color)
    sb,     \* frame of create_scene_background(scene_name, scene_config)
    ut,     \* frame of create_ui_texture(name, width, height, base_color, style)
    mn,     \* frame of main()
    fs      \* the output directories: the file names in each, and the
            \* files written since the start, in order

vars == <<an, cg, sil, sb, ut, mn, fs>>

\* what each function leaves alone
restNoise == <<cg, sil, sb, ut, mn, fs>>
restGradient == <<an, sil, sb, ut, mn, fs>>
restSilhouette == <<an, cg, sb, ut, mn, fs>>
restScene == <<an, cg, sil, ut, mn>>
restTexture == <<an, cg, sil, sb, mn>>
restMain == <<an, cg, sil, sb, ut>>

\* Lines 13-16: both directories exist, and are empty on a first run.
EmptyDirs == [backgrounds |-> {}, textures |-> {}, writes |-> <<>>]

\* a function that is not running
Idle == [pc |-> "idle"]

----------------------------------------------------------------------------
(* Palette and common helpers                                              *)

Max(a, b) == IF a >= b THEN a ELSE b
Min(a, b) == IF a <= b THEN a ELSE b

\* COLORS, lines 19-30
COLORS ==
    [deep_black  |-> <<15, 18, 25>>,
     charcoal    |-> <<35, 40, 50>>,
     slate       |-> <<70, 80, 95>>,
     ash         |-> <<110, 120, 130>>,
     fog         |-> <<160, 170, 180>>,
     snow_white  |-> <<220, 225, 230>>,
     earth_brown |-> <<60, 45, 35>>,
     rust        |-> <<90, 60, 45>>,
     amber       |-> <<180, 140, 60>>,
     cold_blue   |-> <<80, 100, 130>>]

\* random.randint(lo, hi): any integer of lo..hi
RandInt(lo, hi) == lo .. hi

InByte(c) == c \in 0 .. 255

----------------------------------------------------------------------------
(* Python float arithmetic                                                 *)

(* Python floats are IEEE-754 binary64.  Every float met in the script is  *)
(* a multiple of 2^-FracBits below 2^30, so it is kept exactly as a        *)
(* natural number of units 2^-FracBits, written in limbs of LimbBits bits, *)
(* least significant first.  An operation is the exact result rounded to   *)
(* 53 significant bits, ties to even.                                      *)
LimbBits == 15
Base == 2 ^ LimbBits
FracLimbs == 5
FracBits == FracLimbs * LimbBits
Mantissa == 53

Limb(a, k) == IF k <= Len(a) THEN a[k] ELSE 0

RECURSIVE BAddFrom(_, _, _, _)
BAddFrom(a, b, k, carry) ==
    IF k > Max(Len(a), Len(b))
    THEN IF carry = 0 THEN <<>> ELSE <<carry>>
    ELSE LET s == Limb(a, k) + Limb(b, k) + carry
         IN  <<s % Base>> \o BAddFrom(a, b, k + 1, s \div Base)
BAdd(a, b) == BAddFrom(a, b, 1, 0)

\* a - b for a >= b
RECURSIVE BSubFrom(_, _, _, _)
BSubFrom(a, b, k, borrow) ==
    IF k > Len(a) THEN <<>>
    ELSE LET s == a[k] - Limb(b, k) - borrow
         IN  IF s < 0 THEN <<s + Base>> \o BSubFrom(a, b, k + 1, 1)
                      ELSE <<s>> \o BSubFrom(a, b, k + 1, 0)
BSub(a, b) == BSubFrom(a, b, 1, 0)

\* -1, 0, 1 as a < b, a = b, a > b
RECURSIVE BCmpFrom(_, _, _)
BCmpFrom(a, b, k) ==
    IF k = 0 THEN 0
    ELSE IF Limb(a, k) > Limb(b, k) THEN 1
    ELSE IF Limb(a, k) < Limb(b, k) THEN -1
    ELSE BCmpFrom(a, b, k - 1)
BCmp(a, b) == BCmpFrom(a, b, Max(Len(a), Len(b)))

BIsZero(a) == \A k \in 1 .. Len(a) : a[k] = 0

\* a * c + d for 0 <= c, d < Base
RECURSIVE BMulFrom(_, _, _, _)
BMulFrom(a, c, k, carry) ==
    IF k > Len(a)
    THEN IF carry = 0 THEN <<>> ELSE <<carry>>
    ELSE LET s == a[k] * c + carry
         IN  <<s % Base>> \o BMulFrom(a, c, k + 1, s \div Base)
BMulAdd(a, c, d) == BMulFrom(a, c, 1, d)
BMulSmall(a, c) == BMulFrom(a, c, 1, 0)

\* quotient and remainder of a by 0 < c <= Base
RECURSIVE BDivFrom(_, _, _, _)
BDivFrom(a, c, k, rem) ==
    IF k = 0 THEN [q |-> <<>>, r |-> rem]
    ELSE LET t == rem * Base + a[k]
             rest == BDivFrom(a, c, k - 1, t % c)
         IN  [q |-> rest.q \o <<t \div c>>, r |-> rest.r]
BDivSmall(a, c) == BDivFrom(a, c, Len(a), 0)

BFromNat(n) == <<n % Base, n \div Base>>
\* the natural number n as a float
FInt(n) == [k \in 1 .. FracLimbs + 2 |->
              IF k = FracLimbs + 1 THEN n % Base
              ELSE IF k = FracLimbs + 2 THEN n \div Base ELSE 0]
FZero == FInt(0)

\* number of bits of a limb, of a number
RECURSIVE LimbLen(_)
LimbLen(n) == IF n = 0 THEN 0 ELSE 1 + LimbLen(n \div 2)
RECURSIVE BitLenFrom(_, _)
BitLenFrom(a, k) ==
    IF k = 0 THEN 0
    ELSE IF a[k] # 0 THEN (k - 1) * LimbBits + LimbLen(a[k])
    ELSE BitLenFrom(a, k - 1)
BitLen(a) == BitLenFrom(a, Len(a))

\* 2^n
Pow2(n) == [k \in 1 .. n \div LimbBits + 1 |->
              IF k = n \div LimbBits + 1 THEN 2 ^ (n % LimbBits) ELSE 0]
\* a mod 2^d
BLow(a, d) == [k \in 1 .. Len(a) |->
                 IF k <= d \div LimbBits THEN a[k]
                 ELSE IF k = d \div LimbBits + 1 THEN a[k] % (2 ^ (d % LimbBits))
                 ELSE 0]
\* bit d of a (bit 0 is the least significant)
BitAt(a, d) == (Limb(a, d \div LimbBits + 1) \div (2 ^ (d % LimbBits))) % 2

\* The float nearest to the exact value n (+ a positive fraction of a unit
\* when sticky): 53 significant bits kept, round half to even.
Round53(n, sticky) ==
    LET d == BitLen(n) - Mantissa
    IN  IF d <= 0 THEN n
        ELSE LET low == BLow(n, d)
                 half == Pow2(d - 1)
                 c == BCmp(low, half)
                 up == \/ c = 1
                       \/ c = 0 /\ (sticky \/ BitAt(n, d) = 1)
                 floor == BSub(n, low)
             IN  IF up THEN BAdd(floor, Pow2(d)) ELSE floor

\* a / b for integers a >= 0, b > 0 (true division of two ints)
FDivInt(a, b) ==
    LET qr == BDivSmall(FInt(a), b)
    IN  Round53(qr.q, qr.r # 0)

\* c * f for an int 0 <= c < Base and a float f >= 0
FMulInt(c, f) == Round53(BMulSmall(f, c), FALSE)

\* f + g, and f - g for f >= g
FAdd(f, g) == Round53(BAdd(f, g), FALSE)
FSub(f, g) == Round53(BSub(f, g), FALSE)

\* int(f) for f >= 0: the integer part
RECURSIVE BToNatFrom(_, _)
BToNatFrom(a, k) == IF k > Len(a) THEN 0 ELSE a[k] + Base * BToNatFrom(a, k + 1)
FTrunc(f) == BToNatFrom(f, FracLimbs + 1)

\* exact integer square root, for the start of FSqrtInt
RECURSIVE ISqrtFrom(_, _)
ISqrtFrom(n, r) == IF (r + 1) * (r + 1) > n THEN r ELSE ISqrtFrom(n, r + 1)
ISqrt(n) == ISqrtFrom(n, 0)

\* math.sqrt(n) for an int n >= 0: the root is grown one bit at a time,
\* LimbBits bits in a run; rem = (n * 4^(bits done)) - root^2 throughout.
RECURSIVE SqrtBits(_, _, _)
SqrtBits(root, rem, bits) ==
    IF bits = 0 THEN [root |-> root, rem |-> rem]
    ELSE LET rem4 == BMulSmall(rem, 4)
             trial == BMulAdd(root, 4, 1)
         IN  IF BCmp(rem4, trial) >= 0
             THEN SqrtBits(BMulAdd(root, 2, 1), BSub(rem4, trial), bits - 1)
             ELSE SqrtBits(BMulSmall(root, 2), rem4, bits - 1)
RECURSIVE SqrtSteps(_, _, _)
SqrtSteps(root, rem, runs) ==
    IF runs = 0 THEN [root |-> root, rem |-> rem]
    ELSE \* the run is computed once, as the one element of a set
         CHOOSE s \in { SqrtSteps(r.root, r.rem, runs - 1) :
                          r \in {SqrtBits(root, rem, LimbBits)} } : TRUE
FSqrtInt(n) ==
    LET r0 == ISqrt(n)
    IN  CHOOSE f \in { Round53(s.root, ~BIsZero(s.rem)) :
                         s \in {SqrtSteps(BFromNat(r0), BFromNat(n - r0 * r0),
                                          FracLimbs)} } : TRUE

\* f / g for floats 0 <= f <= g, g > 0: long division, one limb of the
\* quotient at a time and one bit of the limb at a time;
\* rem = f * 2^(bits done) - q * g throughout.
RECURSIVE DivLimb(_, _, _, _)
DivLimb(digit, rem, g, bits) ==
    IF bits = 0 THEN [digit |-> digit, rem |-> rem]
    ELSE LET rem2 == BMulSmall(rem, 2)
         IN  IF BCmp(rem2, g) >= 0
             THEN DivLimb(2 * digit + 1, BSub(rem2, g), g, bits - 1)
             ELSE DivLimb(2 * digit, rem2, g, bits - 1)
RECURSIVE DivSteps(_, _, _, _)
DivSteps(q, rem, g, limbs) ==
    IF limbs = 0 THEN [q |-> q, rem |-> rem]
    ELSE \* the limb is computed once, as the one element of a set
         CHOOSE s \in { DivSteps(<<l.digit>> \o q, l.rem, g, limbs - 1) :
                          l \in {DivLimb(0, rem, g, LimbBits)} } : TRUE
FDivValues(f, g) ==
    LET one == BCmp(f, g) >= 0
    IN  CHOOSE r \in { Round53(s.q, ~BIsZero(s.rem)) :
                         s \in {DivSteps(IF one THEN <<1>> ELSE <<0>>,
                                         IF one THEN BSub(f, g) ELSE f,
                                         g, FracLimbs)} } : TRUE
FDiv(f, g) == CHOOSE r \in { FDivValues(a, b) : a \in {f}, b \in {g} } : TRUE

\* Signed floats: a sign and a magnitude; zero is not negative.
SInt(n) == [neg |-> n < 0, mag |-> FInt(IF n < 0 THEN -n ELSE n)]
\* n + f for an int n and a float f >= 0
SAddInt(n, f) ==
    IF n >= 0 THEN [neg |-> FALSE, mag |-> FAdd(FInt(n), f)]
    ELSE IF BCmp(f, FInt(-n)) >= 0 THEN [neg |-> FALSE, mag |-> FSub(f, FInt(-n))]
    ELSE [neg |-> TRUE, mag |-> FSub(FInt(-n), f)]
\* s <= t
SLeq(s, t) ==
    IF s.neg /\ t.neg THEN BCmp(s.mag, t.mag) >= 0
    ELSE IF s.neg THEN TRUE
    ELSE IF t.neg THEN FALSE
    ELSE BCmp(s.mag, t.mag) <= 0

----------------------------------------------------------------------------
(* add_noise, lines 32-47                                                  *)

\* max(0, min(255, c + noise)), lines 40-42
ClampUnchecked(c, noise) == c + noise
Clamp(c, noise) == Max(0, Min(255, c + noise))

\* Lines 38-46: the pixel written back for pixel p and the drawn noise.
\* One delta is shared by R, G and B; a fourth (alpha) channel is kept.
NoisePixel(p, noise) ==
    LET r == Clamp(p[1], noise)
        g == Clamp(p[2], noise)
        b == Clamp(p[3], noise)
    IN  IF Len(p) = 4 THEN <<r, g, b, p[4]>> ELSE <<r, g, b>>

\* Canvases handed to add_noise: at most MaxPixels pixels, each one of these.
MaxPixels == 2
NoisePixelSamples ==
    { <<0, 0, 0>>, <<255, 255, 255>>, <<3, 128, 250>>, <<60, 45, 35, 255>> }
\* intensity: 0, the two the composers pass (8 and 12) and the default (15)
Intensities == {0, 8, 12, 15}

NoiseSizes == { wh \in (1 .. MaxPixels) \X (1 .. MaxPixels) : wh[1] * wh[2] <= MaxPixels }

\* pixels[i, j] is kept at index i * height + j + 1
PixelIndex(f, i, j) == i * f.height + j + 1

InitNoise ==
    \E wh \in NoiseSizes, I \in Intensities :
      \E img \in [1 .. wh[1] * wh[2] -> NoisePixelSamples] :
        /\ an = [pc |-> "loop", width |-> wh[1], height |-> wh[2], intensity |-> I,
                 input |-> img, pixels |-> img, i |-> 0, j |-> 0, noise |-> 0]
        /\ cg = Idle /\ sil = Idle /\ sb = Idle /\ ut = Idle /\ mn = Idle
        /\ fs = EmptyDirs

\* One iteration of the inner loop, lines 37-46.
AddNoisePixel ==
    /\ an.pc = "loop"
    /\ an.i < an.width
    /\ \E noise \in RandInt(-an.intensity, an.intensity) :
         LET k == PixelIndex(an, an.i, an.j)
             last == an.j + 1 = an.height
         IN  an' = [an EXCEPT !.pixels[k] = NoisePixel(an.pixels[k], noise),
                              !.noise = noise,
                              !.j = IF last THEN 0 ELSE an.j + 1,
                              !.i = IF last THEN an.i + 1 ELSE an.i]
    /\ UNCHANGED restNoise

\* Line 47: return img.
AddNoiseReturn ==
    /\ an.pc = "loop"
    /\ an.i = an.width
    /\ an' = [an EXCEPT !.pc = "done"]
    /\ UNCHANGED restNoise

NextNoise == AddNoisePixel \/ AddNoiseReturn

SpecNoise == InitNoise /\ [][NextNoise]_vars

\* Pixels add_noise has already rewritten.
NoiseDone(k) == k < PixelIndex(an, an.i, an.j)

\* C2: add_noise bound.  Every R, G, B channel of every rewritten pixel
\* differs from the input channel by at most the intensity and lies in
\* 0..255, whatever deltas were drawn; alpha is passed through.
C2_NoiseBound ==
    \A k \in DOMAIN an.pixels :
        NoiseDone(k) =>
            /\ Len(an.pixels[k]) = Len(an.input[k])
            /\ \A c \in 1 .. 3 :
                  /\ an.pixels[k][c] - an.input[k][c] <= an.intensity
                  /\ an.input[k][c] - an.pixels[k][c] <= an.intensity
                  /\ InByte(an.pixels[k][c])

\* A finished pass in which a clamp took effect: a channel moved by less
\* than the drawn delta.
C2_Witness ==
    /\ an.pc = "done"
    /\ an.intensity > 0
    /\ \E k \in DOMAIN an.pixels :
          /\ an.input[k] = <<3, 128, 250>>
          /\ an.pixels[k][3] = 255
          /\ an.pixels[k][1] = 3 + (an.pixels[k][2] - 128)
          /\ an.pixels[k][2] > 128 + 5

----------------------------------------------------------------------------
(* draw_building_silhouette, lines 67-104                                  *)

\* Line 108: the scene canvas, 640 x 1200.
SceneWidth == 640
SceneHeight == 1200
\* Line 128: ground_y = int(height * 0.7)
ground_y == FTrunc(FMulInt(SceneHeight, FDivInt(7, 10)))
\* Line 132: tuple(min(255, c + 40) for c in COLORS['charcoal'])
color_fade == [c \in 1 .. 3 |-> Min(255, COLORS.charcoal[c] + 40)]

\* The three depth bands of create_scene_background, lines 129-145: the
\* range of bx, the range of bw, the baseline and the colour passed.
SilhouetteBands ==
    { [xlo |-> -50, xhi |-> SceneWidth, wlo |-> 40, whi |-> 120,
       base_y |-> ground_y - 50, color |-> color_fade],
      [xlo |-> -30, xhi |-> SceneWidth - 50, wlo |-> 60, whi |-> 150,
       base_y |-> ground_y, color |-> COLORS.charcoal],
      [xlo |-> -20, xhi |-> SceneWidth - 100, wlo |-> 80, whi |-> 200,
       base_y |-> ground_y + 100, color |-> COLORS.deep_black] }

\* Draws kept of a range: both ends, and the listed values inside it.
Ends(lo, hi) == {lo, hi}
BxSamples(lo, hi) == Ends(lo, hi) \cup ({11} \cap (lo .. hi))
\* The widths run for a band at bx: the whole range of bw at the low end
\* of bx, and three widths of it elsewhere.
BwSamples(band, bx) ==
    IF bx = band.xlo THEN RandInt(band.wlo, band.whi)
    ELSE (Ends(band.wlo, band.whi) \cup {116}) \cap RandInt(band.wlo, band.whi)
\* The draws of randint(-20, 30) kept for a roofline of n points: all at
\* the low end, all at the high end, and the two alternations.
RoofOffsetSamples(n) ==
    { [k \in 1 .. n |-> -20], [k \in 1 .. n |-> 30],
      [k \in 1 .. n |-> IF k % 2 = 0 THEN -20 ELSE 30],
      [k \in 1 .. n |-> IF k % 2 = 0 THEN 30 ELSE -20] }

\* Line 94: wx = x + 10 + col * (width - 20) // window_cols
WindowXNoMargin(x, width, col, window_cols) ==
    x + 10 + (col * width) \div window_cols
WindowX(x, width, col, window_cols) ==
    x + 10 + (col * (width - 20)) \div window_cols
\* Line 95: wy = top_y + 20 + row * (building_height - 40) // window_rows
WindowYNoMargin(top_y, building_height, row, window_rows) ==
    top_y + 20 + (row * building_height) \div window_rows
WindowY(top_y, building_height, row, window_rows) ==
    top_y + 20 + (row * (building_height - 40)) \div window_rows
\* Line 102: tuple(max(0, c - 15) for c in color)
DarkWindow(color) == [c \in 1 .. 3 |-> Max(0, color[c] - 15)]

\* Line 80: seg_x = x + i * segment_width
SegXOneTooFar(x, i, segment_width, width, num_segments) ==
    SAddInt(x, FMulInt(i + 1, segment_width))
SegX(x, i, segment_width, width, num_segments) ==
    SAddInt(x, FMulInt(i, segment_width))

\* Lines 74 and 84: the points before and after the roofline.
OpenPoints(x, base_y, top_y) ==
    << [x |-> SInt(x), y |-> base_y], [x |-> SInt(x), y |-> top_y] >>
ClosePoint(x, width, base_y) == [x |-> SInt(x + width), y |-> base_y]

InitSilhouette ==
    /\ \E band \in SilhouetteBands :
         \E bx \in BxSamples(band.xlo, band.xhi) : \E bw \in BwSamples(band, bx) :
           sil = [pc |-> "start", x |-> bx, width |-> bw, height |-> SceneHeight,
                  base_y |-> band.base_y, color |-> band.color,
                  building_height |-> 0, top_y |-> 0, points |-> <<>>,
                  num_segments |-> 0, segment_width |-> FZero, i |-> 0,
                  window_rows |-> 0, window_cols |-> 0, row |-> 0, col |-> 0,
                  rect |-> <<>>, window_color |-> <<>>]
    /\ an = Idle /\ cg = Idle /\ sb = Idle /\ ut = Idle /\ mn = Idle
    /\ fs = EmptyDirs

\* Lines 70-78: the height, the two left points, the segment count.
SilBegin ==
    /\ sil.pc = "start"
    /\ \E building_height \in Ends(sil.height \div 4, sil.height \div 2),
          num_segments \in RandInt(3, 8) :
         sil' = [sil EXCEPT !.pc = "roof",
                            !.building_height = building_height,
                            !.top_y = sil.base_y - building_height,
                            !.points = OpenPoints(sil.x, sil.base_y,
                                                  sil.base_y - building_height),
                            !.num_segments = num_segments,
                            !.segment_width = FDivInt(sil.width, num_segments),
                            !.i = 0]
    /\ UNCHANGED restSilhouette

\* Lines 79-84: the roofline loop, one point per entry of offsets (the
\* draws of randint(-20, 30), in order), and the closing point.
RECURSIVE RoofPoints(_, _, _, _, _, _)
RoofPoints(x, top_y, segment_width, width, num_segments, offsets) ==
    IF offsets = <<>> THEN <<>>
    ELSE LET i == Len(offsets) - 1
             seg_x == SegX(x, i, segment_width, width, num_segments)
             seg_y == top_y + offsets[i + 1]
         IN  Append(RoofPoints(x, top_y, segment_width, width, num_segments,
                               SubSeq(offsets, 1, i)),
                    [x |-> seg_x, y |-> seg_y])

SilRoofline ==
    /\ sil.pc = "roof"
    /\ \E offsets \in RoofOffsetSamples(sil.num_segments + 1) :
         sil' = [sil EXCEPT
                   !.pc = "polygon",
                   !.i = sil.num_segments + 1,
                   !.points = @ \o RoofPoints(sil.x, sil.top_y, sil.segment_width,
                                              sil.width, sil.num_segments, offsets)
                                \o <<ClosePoint(sil.x, sil.width, sil.base_y)>>]
    /\ UNCHANGED restSilhouette

\* Lines 86-90: draw.polygon(points, fill=color), then the window grid is
\* chosen.  Nothing reads the roofline locals after the fill: they are
\* dropped from the frame.
SilFillPolygon ==
    /\ sil.pc = "polygon"
    /\ \E window_rows \in RandInt(3, 8), window_cols \in RandInt(2, 5) :
         sil' = [sil EXCEPT !.pc = "windows",
                            !.points = <<>>, !.num_segments = 0,
                            !.segment_width = FZero, !.i = 0,
                            !.window_rows = window_rows,
                            !.window_cols = window_cols,
                            !.row = 0, !.col = 0]
    /\ UNCHANGED restSilhouette

\* Lines 92-104: one cell of the window grid.  rect and window_color are
\* the arguments of the draw.rectangle call of this cell, if it made one.
SilWindowCell ==
    /\ sil.pc = "windows"
    /\ sil.row < sil.window_rows
    /\ \E window \in BOOLEAN, lit \in BOOLEAN :
         LET wx == WindowX(sil.x, sil.width, sil.col, sil.window_cols)
             wy == WindowY(sil.top_y, sil.building_height, sil.row, sil.window_rows)
             last == sil.col + 1 = sil.window_cols
         IN  /\ ~window => ~lit
             /\ sil' = [sil EXCEPT
                  !.rect = IF window THEN <<wx, wy, wx + 8, wy + 12>> ELSE <<>>,
                  !.window_color = IF ~window THEN <<>>
                                   ELSE IF lit THEN COLORS.amber
                                   ELSE DarkWindow(sil.color),
                  !.col = IF last THEN 0 ELSE @ + 1,
                  !.row = IF last THEN @ + 1 ELSE @]
    /\ UNCHANGED restSilhouette

\* The function returns after the last cell.
SilReturn ==
    /\ sil.pc = "windows"
    /\ sil.row = sil.window_rows
    /\ sil' = [sil EXCEPT !.pc = "done"]
    /\ UNCHANGED restSilhouette

NextSilhouette ==
    \/ SilBegin \/ SilRoofline
    \/ SilFillPolygon \/ SilWindowCell \/ SilReturn

SpecSilhouette == InitSilhouette /\ [][NextSilhouette]_vars

\* s + e for a signed float s and a magnitude e, exactly
SPlus(s, e) ==
    IF ~s.neg THEN [neg |-> FALSE, mag |-> BAdd(s.mag, e)]
    ELSE IF BCmp(e, s.mag) >= 0 THEN [neg |-> FALSE, mag |-> BSub(e, s.mag)]
    ELSE [neg |-> TRUE, mag |-> BSub(s.mag, e)]

NonDecreasingX(points, from, to) ==
    \A n \in from .. to - 1 : SLeq(points[n].x, points[n + 1].x)

C4_NonDecreasingToTheEnd ==
    sil.pc = "polygon" => NonDecreasingX(sil.points, 1, Len(sil.points))

C10_WindowInside ==
    sil.rect # <<>> =>
        /\ sil.x <= sil.rect[1]
        /\ sil.rect[3] = sil.rect[1] + 8
        /\ sil.rect[3] <= sil.x + sil.width
        /\ sil.top_y <= sil.rect[2]
        /\ sil.rect[4] = sil.rect[2] + 12
        /\ sil.rect[4] <= sil.base_y
        /\ sil.top_y = sil.base_y - sil.building_height

\* A window drawn in the last row and the last column of the largest grid
\* on the narrowest building.
C10_Witness ==
    /\ sil.rect # <<>>
    /\ sil.width = 40
    /\ sil.window_rows = 8 /\ sil.window_cols = 5
    /\ sil.row = 8 /\ sil.col = 0
    /\ sil.rect[1] = sil.x + 10 + 16

----------------------------------------------------------------------------
(* create_gradient, lines 49-65                                            *)

\* Lines 55-58: int(color1[c] * (1 - ratio) + color2[c] * ratio) with
\* ratio = i / n, in floats.
GradChannelSwapped(c1, c2, i, n) ==
    LET ratio == FDivInt(i, n)
    IN  FTrunc(FAdd(FMulInt(c2, FSub(FInt(1), ratio)), FMulInt(c1, ratio)))
GradChannel(c1, c2, i, n) ==
    LET ratio == FDivInt(i, n)
    IN  FTrunc(FAdd(FMulInt(c1, FSub(FInt(1), ratio)), FMulInt(c2, ratio)))

\* Line 54: the number of lines drawn.
GradLines(f) == IF f.direction = "vertical" THEN f.height ELSE f.width

\* Canvases up to MaxGradSide a side, and the canvas of the scenes.
MaxGradSide == 3
GradColors ==
    { <<0, 0, 0>>, <<255, 255, 255>>, <<1, 194, 35>>, <<7, 252, 40>>,
      COLORS.charcoal }
\* Lines 111-113 with the sky colours of scene_00_home and scene_09_ending,
\* lines 273-274 and 318-319.
SceneGradients ==
    { [width |-> SceneWidth, height |-> SceneHeight, direction |-> "vertical",
       color1 |-> COLORS.deep_black, color2 |-> COLORS.charcoal],
      [width |-> SceneWidth, height |-> SceneHeight, direction |-> "vertical",
       color1 |-> <<80, 70, 60>>, color2 |-> <<120, 100, 80>>] }
GradientArgs ==
    [width : 1 .. MaxGradSide, height : 1 .. MaxGradSide,
     direction : {"vertical", "horizontal"},
     color1 : GradColors, color2 : GradColors] \cup SceneGradients

\* Line 51: a new RGB image is black.  lines[i + 1] is the fill of the line
\* drawn at index i: the whole row i (vertical) or column i (horizontal).
InitGradient ==
    /\ \E a \in GradientArgs :
         cg = [pc |-> "loop", width |-> a.width, height |-> a.height,
               color1 |-> a.color1, color2 |-> a.color2,
               direction |-> a.direction, i |-> 0, lines |-> <<>>]
    /\ an = Idle /\ sil = Idle /\ sb = Idle /\ ut = Idle /\ mn = Idle
    /\ fs = EmptyDirs

\* Lines 54-63: one line of the gradient.
GradientLine ==
    /\ cg.pc = "loop"
    /\ cg.i < GradLines(cg)
    /\ LET fill == [c \in 1 .. 3 |->
                      GradChannel(cg.color1[c], cg.color2[c], cg.i, GradLines(cg))]
       IN  cg' = [cg EXCEPT !.lines = Append(@, fill), !.i = @ + 1]
    /\ UNCHANGED restGradient

\* Line 65: return img.
GradientReturn ==
    /\ cg.pc = "loop"
    /\ cg.i = GradLines(cg)
    /\ cg' = [cg EXCEPT !.pc = "done"]
    /\ UNCHANGED restGradient

NextGradient == GradientLine \/ GradientReturn

SpecGradient == InitGradient /\ [][NextGradient]_vars

\* The pixel at (x, y) of the canvas being filled.
GradPixel(x, y) ==
    LET k == IF cg.direction = "vertical" THEN y ELSE x
    IN  IF k < Len(cg.lines) THEN cg.lines[k + 1] ELSE <<0, 0, 0>>

Abs(n) == IF n < 0 THEN -n ELSE n

\* C3 as stated: on return the first row or column is colorA exactly and
\* the last one is colorB within 1 in every channel.
C3_AsStated ==
    cg.pc = "done" =>
        \A c \in 1 .. 3 :
           /\ GradPixel(0, 0)[c] = cg.color1[c]
           /\ Abs(GradPixel(cg.width - 1, cg.height - 1)[c] - cg.color2[c]) <= 1

\* C3 amended: on return every pixel of the first row or column is colorA
\* exactly; the last one (index N-1, ratio (N-1)/N) is within |A-B|/N + 1
\* of colorB in every channel, so within 1 of it in a channel where
\* |A-B| < N.
C3_Boundary ==
    cg.pc = "done" =>
        LET n == GradLines(cg)
            vertical == cg.direction = "vertical"
            first == IF vertical THEN { GradPixel(x, 0) : x \in 0 .. cg.width - 1 }
                     ELSE { GradPixel(0, y) : y \in 0 .. cg.height - 1 }
            last == IF vertical
                    THEN { GradPixel(x, cg.height - 1) : x \in 0 .. cg.width - 1 }
                    ELSE { GradPixel(cg.width - 1, y) : y \in 0 .. cg.height - 1 }
        IN  \A c \in 1 .. 3 :
              LET gap == Abs(cg.color1[c] - cg.color2[c])
              IN  /\ \A p \in first : p[c] = cg.color1[c]
                  /\ \A p \in last :
                        /\ n * Abs(p[c] - cg.color2[c]) <= gap + n
                        /\ gap < n => Abs(p[c] - cg.color2[c]) <= 1

\* A three-row gradient from 1 to 7 in the red channel: the last row is
\* 4, the float sum 1*(1-2/3) + 7*(2/3) falling just short of 5.
C3_Witness ==
    /\ cg.pc = "done"
    /\ cg.direction = "vertical" /\ cg.height = 3
    /\ cg.color1[1] = 1 /\ cg.color2[1] = 7
    /\ cg.lines[1][1] = 1
    /\ cg.lines[3][1] = 4

----------------------------------------------------------------------------
(* create_scene_background, lines 106-169                                  *)

\* The scenes of main, lines 271-322: name, sky_top, sky_bottom, ground.
SceneCatalog ==
    << [name |-> "scene_00_home", sky_top |-> COLORS.deep_black,
        sky_bottom |-> COLORS.charcoal, ground_color |-> COLORS.ash],
       [name |-> "scene_01_street", sky_top |-> COLORS.charcoal,
        sky_bottom |-> COLORS.slate, ground_color |-> COLORS.fog],
       [name |-> "scene_02_restarea", sky_top |-> COLORS.deep_black,
        sky_bottom |-> <<50, 40, 35>>, ground_color |-> COLORS.earth_brown],
       [name |-> "scene_03_highway", sky_top |-> COLORS.slate,
        sky_bottom |-> COLORS.fog, ground_color |-> COLORS.snow_white],
       [name |-> "scene_04_daejeon", sky_top |-> <<20, 25, 40>>,
        sky_bottom |-> COLORS.charcoal, ground_color |-> COLORS.ash],
       [name |-> "scene_05_shelter", sky_top |-> COLORS.charcoal,
        sky_bottom |-> COLORS.slate, ground_color |-> COLORS.earth_brown],
       [name |-> "scene_06_gyeongnam", sky_top |-> COLORS.slate,
        sky_bottom |-> COLORS.fog, ground_color |-> COLORS.snow_white],
       [name |-> "scene_07_busan_outer", sky_top |-> COLORS.cold_blue,
        sky_bottom |-> COLORS.slate, ground_color |-> COLORS.ash],
       [name |-> "scene_08_sanctuary", sky_top |-> COLORS.charcoal,
        sky_bottom |-> <<60, 70, 90>>, ground_color |-> COLORS.slate],
       [name |-> "scene_09_ending", sky_top |-> <<80, 70, 60>>,
        sky_bottom |-> <<120, 100, 80>>, ground_color |-> COLORS.fog] >>

\* The order of the statements of the function body: each stage, the
\* number of times its statement runs (the range of its loop), and the
\* source line it starts at.
SceneStagesBlurFirst ==
    << [stage |-> "sky", runs |-> 1], [stage |-> "haze", runs |-> 3],
       [stage |-> "distant", runs |-> 8], [stage |-> "mid", runs |-> 6],
       [stage |-> "foreground", runs |-> 4], [stage |-> "ground", runs |-> 1],
       [stage |-> "particles", runs |-> 200], [stage |-> "blur", runs |-> 1],
       [stage |-> "noise", runs |-> 1], [stage |-> "save", runs |-> 1] >>
SceneStages ==
    << [stage |-> "sky", runs |-> 1],            \* lines 111-114
       [stage |-> "haze", runs |-> 3],           \* lines 117-125
       [stage |-> "distant", runs |-> 8],        \* lines 129-133
       [stage |-> "mid", runs |-> 6],            \* lines 136-139
       [stage |-> "foreground", runs |-> 4],     \* lines 142-145
       [stage |-> "ground", runs |-> 1],         \* lines 148-149
       [stage |-> "particles", runs |-> 200],    \* lines 152-157
       [stage |-> "noise", runs |-> 1],          \* line 160
       [stage |-> "blur", runs |-> 1],           \* line 163
       [stage |-> "save", runs |-> 1] >>         \* lines 166-167

StageNames == { SceneStages[k].stage : k \in DOMAIN SceneStages }
StageIndex(stage) == CHOOSE k \in DOMAIN SceneStages : SceneStages[k].stage = stage

\* The frame after one run of the statement of its stage: the run is
\* counted, the call made is kept, and control moves on to the next stage
\* after the last run.
SceneStep(f, call) ==
    LET k == StageIndex(f.pc)
        n == f.done[f.pc] + 1
        over == n = SceneStages[k].runs
    IN  [f EXCEPT !.done[f.pc] = n,
                  !.call = call,
                  !.i = IF over THEN 0 ELSE @ + 1,
                  !.pc = IF ~over THEN @
                         ELSE IF k = Len(SceneStages) THEN "return"
                         ELSE SceneStages[k + 1].stage]

InitScene ==
    /\ \E k \in DOMAIN SceneCatalog :
         sb = [pc |-> SceneStages[1].stage, scene_name |-> SceneCatalog[k].name,
               scene_config |-> SceneCatalog[k],
               width |-> SceneWidth, height |-> SceneHeight,
               i |-> 0, done |-> [s \in StageNames |-> 0], call |-> <<>>]
    /\ fs = EmptyDirs
    /\ an = Idle /\ cg = Idle /\ sil = Idle /\ ut = Idle /\ mn = Idle

\* Lines 111-114: the sky, create_gradient(width, height, sky_top, sky_bottom).
SceneSky ==
    /\ sb.pc = "sky"
    /\ sb' = SceneStep(sb, <<"create_gradient", sb.width, sb.height,
                             sb.scene_config.sky_top, sb.scene_config.sky_bottom>>)
    /\ UNCHANGED <<fs, restScene>>

\* Lines 117-125: one haze layer, pasted at haze_y through its own alpha.
SceneHaze ==
    /\ sb.pc = "haze"
    /\ LET layer == sb.i
           haze_y == sb.height \div 3 + layer * 100
           haze_alpha == 30 + layer * 20
           haze_color == COLORS.fog \o <<haze_alpha>>
       IN  sb' = SceneStep(sb, <<"paste", 0, haze_y, haze_color>>)
    /\ UNCHANGED <<fs, restScene>>

\* Lines 129-133: one distant building.
SceneDistant ==
    /\ sb.pc = "distant"
    /\ \E bx \in Ends(-50, sb.width), bw \in Ends(40, 120) :
         sb' = SceneStep(sb, <<"draw_building_silhouette", bx, bw, sb.height,
                               ground_y - 50, color_fade>>)
    /\ UNCHANGED <<fs, restScene>>

\* Lines 136-139: one mid-ground building.
SceneMid ==
    /\ sb.pc = "mid"
    /\ \E bx \in Ends(-30, sb.width - 50), bw \in Ends(60, 150) :
         sb' = SceneStep(sb, <<"draw_building_silhouette", bx, bw, sb.height,
                               ground_y, COLORS.charcoal>>)
    /\ UNCHANGED <<fs, restScene>>

\* Lines 142-145: one foreground building.
SceneForeground ==
    /\ sb.pc = "foreground"
    /\ \E bx \in Ends(-20, sb.width - 100), bw \in Ends(80, 200) :
         sb' = SceneStep(sb, <<"draw_building_silhouette", bx, bw, sb.height,
                               ground_y + 100, COLORS.deep_black>>)
    /\ UNCHANGED <<fs, restScene>>

\* Lines 148-149: the ground rectangle.
SceneGround ==
    /\ sb.pc = "ground"
    /\ sb' = SceneStep(sb, <<"rectangle", 0, ground_y + 50, sb.width, sb.height,
                             sb.scene_config.ground_color>>)
    /\ UNCHANGED <<fs, restScene>>

\* Lines 152-157: one snow particle (alpha is drawn and not used).
SceneParticle ==
    /\ sb.pc = "particles"
    /\ \E sx \in Ends(0, sb.width), sy \in Ends(0, sb.height), size \in RandInt(1, 3) :
         sb' = SceneStep(sb, <<"ellipse", sx, sy, sx + size, sy + size,
                               COLORS.snow_white>>)
    /\ UNCHANGED <<fs, restScene>>

\* Line 160: img = add_noise(img, intensity=12)
SceneNoise ==
    /\ sb.pc = "noise"
    /\ sb' = SceneStep(sb, <<"add_noise", 12>>)
    /\ UNCHANGED <<fs, restScene>>

\* Line 163: the final Gaussian blur.
SceneBlur ==
    /\ sb.pc = "blur"
    /\ sb' = SceneStep(sb, <<"GaussianBlur">>)
    /\ UNCHANGED <<fs, restScene>>

\* Lines 166-167: img.save writes backgrounds/<scene_name>.png.
SceneSave ==
    /\ sb.pc = "save"
    /\ sb' = SceneStep(sb, <<"save", sb.scene_name>>)
    /\ fs' = [fs EXCEPT !.backgrounds = @ \cup {sb.scene_name},
                        !.writes = Append(@, <<"backgrounds", sb.scene_name>>)]
    /\ UNCHANGED restScene

\* img.save raises (the file cannot be written): the exception leaves the
\* function, and no file is there.
SceneSaveRaises ==
    /\ sb.pc = "save"
    /\ sb' = [sb EXCEPT !.pc = "raised"]
    /\ UNCHANGED <<fs, restScene>>

\* Lines 168-169: return filepath.
SceneReturn ==
    /\ sb.pc = "return"
    /\ sb' = [sb EXCEPT !.pc = "done"]
    /\ UNCHANGED <<fs, restScene>>

NextScene ==
    \/ SceneSky \/ SceneHaze \/ SceneDistant \/ SceneMid \/ SceneForeground
    \/ SceneGround \/ SceneParticle \/ SceneNoise \/ SceneBlur
    \/ SceneSave \/ SceneSaveRaises \/ SceneReturn

SpecScene == InitScene /\ [][NextScene]_vars

\* The claim's stages in the claim's order, with the claim's counts.
C6_Order ==
    << <<"sky", 1>>, <<"haze", 3>>, <<"distant", 8>>, <<"mid", 6>>,
       <<"foreground", 4>>, <<"ground", 1>>, <<"particles", 200>>,
       <<"noise", 1>>, <<"blur", 1>> >>

\* C6: the stages run in the order sky, 3 haze layers, 8 distant, 6 mid
\* and 4 foreground silhouettes, ground, 200 particles, noise (12), blur:
\* a stage has run at all only when every earlier one has run its full
\* count, none runs more than its count, and the file is written only
\* when all of them have.
C6_StrictOrder ==
    /\ \A k \in DOMAIN C6_Order :
          /\ sb.done[C6_Order[k][1]] <= C6_Order[k][2]
          /\ \A j \in 1 .. k - 1 :
                sb.done[C6_Order[k][1]] > 0 =>
                    sb.done[C6_Order[j][1]] = C6_Order[j][2]
    /\ sb.call # <<>> /\ sb.call[1] = "add_noise" => sb.call[2] = 12
    /\ (sb.done["save"] > 0 \/ fs.writes # <<>> \/ fs.backgrounds # {}) =>
          /\ \A k \in DOMAIN C6_Order : sb.done[C6_Order[k][1]] = C6_Order[k][2]
          /\ fs.writes = << <<"backgrounds", sb.scene_name>> >>
          /\ fs.backgrounds = {sb.scene_name}

\* The function has returned with its file written.
C6_Witness ==
    /\ sb.pc = "done"
    /\ sb.scene_name \in fs.backgrounds
    /\ sb.done["particles"] = 200 /\ sb.done["blur"] = 1

----------------------------------------------------------------------------
(* main, lines 267-351                                                     *)

\* The create_ui_texture calls of main: lines 333, 334, 337, 338, 341, 344.
TextureCatalogHoverOverwrites ==
    << [name |-> "inv_slot", width |-> 64, height |-> 64,
        base_color |-> COLORS.earth_brown, style |-> "inventory"],
       [name |-> "inv_slot_empty", width |-> 64, height |-> 64,
        base_color |-> <<30, 25, 20>>, style |-> "inventory"],
       [name |-> "btn_texture", width |-> 280, height |-> 50,
        base_color |-> COLORS.earth_brown, style |-> "rough"],
       [name |-> "btn_texture", width |-> 280, height |-> 50,
        base_color |-> COLORS.rust, style |-> "rough"],
       [name |-> "soundbox_texture", width |-> 300, height |-> 150,
        base_color |-> <<40, 50, 65>>, style |-> "rough"],
       [name |-> "textbox_bg", width |-> 300, height |-> 200,
        base_color |-> <<10, 12, 18>>, style |-> "rough"] >>
TextureCatalog ==
    << [name |-> "inv_slot", width |-> 64, height |-> 64,
        base_color |-> COLORS.earth_brown, style |-> "inventory"],
       [name |-> "inv_slot_empty", width |-> 64, height |-> 64,
        base_color |-> <<30, 25, 20>>, style |-> "inventory"],
       [name |-> "btn_texture", width |-> 280, height |-> 50,
        base_color |-> COLORS.earth_brown, style |-> "rough"],
       [name |-> "btn_texture_hover", width |-> 280, height |-> 50,
        base_color |-> COLORS.rust, style |-> "rough"],
       [name |-> "soundbox_texture", width |-> 300, height |-> 150,
        base_color |-> <<40, 50, 65>>, style |-> "rough"],
       [name |-> "textbox_bg", width |-> 300, height |-> 200,
        base_color |-> <<10, 12, 18>>, style |-> "rough"] >>

\* Line 262: the file of create_brush_stroke_speaker.
SpeakerBrush == "speaker_brush"

\* A file saved into one of the two directories (img.save, lines 167, 224
\* and 263): the file is there afterwards, whether or not it was before.
Saved(dirs, dir, name) ==
    [dirs EXCEPT ![dir] = @ \cup {name},
                 !.writes = Append(@, <<dir, name>>)]

\* The files main writes when nothing raises, in the order of its calls.
MainWrites ==
    [k \in 1 .. Len(SceneCatalog) |-> <<"backgrounds", SceneCatalog[k].name>>]
    \o [k \in 1 .. Len(TextureCatalog) |-> <<"textures", TextureCatalog[k].name>>]
    \o << <<"textures", SpeakerBrush>> >>

\* The two directories as an earlier run that got through its first n
\* files left them (lines 14-17: they are made when missing and kept,
\* with what they hold, when they exist).
LeftBy(n) ==
    [backgrounds |-> { MainWrites[k][2] :
                         k \in { j \in 1 .. n : MainWrites[j][1] = "backgrounds" } },
     textures |-> { MainWrites[k][2] :
                         k \in { j \in 1 .. n : MainWrites[j][1] = "textures" } },
     writes |-> <<>>]

InitMain ==
    /\ mn = [pc |-> "scenes", k |-> 1, call |-> <<>>]
    /\ \E n \in 0 .. Len(MainWrites) : fs = LeftBy(n)
    /\ an = Idle /\ cg = Idle /\ sil = Idle /\ sb = Idle /\ ut = Idle

\* Lines 326-327: one round of the loop over the scenes, the call returns.
MainScene ==
    /\ mn.pc = "scenes"
    /\ LET scene == SceneCatalog[mn.k]
           last == mn.k = Len(SceneCatalog)
       IN  /\ fs' = Saved(fs, "backgrounds", scene.name)
           /\ mn' = [pc |-> IF last THEN "textures" ELSE "scenes",
                     k |-> IF last THEN 1 ELSE mn.k + 1,
                     call |-> <<"create_scene_background", scene.name, scene>>]
    /\ UNCHANGED restMain

\* The call of line 327 raises: main has no handler, the exception ends it.
MainSceneRaises ==
    /\ mn.pc = "scenes"
    /\ mn' = [mn EXCEPT !.pc = "raised",
                        !.call = <<"create_scene_background",
                                   SceneCatalog[mn.k].name, SceneCatalog[mn.k]>>]
    /\ UNCHANGED <<fs, restMain>>

\* Lines 333-344: the next create_ui_texture call, which returns.
MainTexture ==
    /\ mn.pc = "textures"
    /\ LET t == TextureCatalog[mn.k]
           last == mn.k = Len(TextureCatalog)
       IN  /\ fs' = Saved(fs, "textures", t.name)
           /\ mn' = [pc |-> IF last THEN "brush" ELSE "textures",
                     k |-> IF last THEN 1 ELSE mn.k + 1,
                     call |-> <<"create_ui_texture", t.name, t.width, t.height,
                                t.base_color, t.style>>]
    /\ UNCHANGED restMain

\* The create_ui_texture call raises.
MainTextureRaises ==
    /\ mn.pc = "textures"
    /\ LET t == TextureCatalog[mn.k]
       IN  mn' = [mn EXCEPT !.pc = "raised",
                            !.call = <<"create_ui_texture", t.name, t.width,
                                       t.height, t.base_color, t.style>>]
    /\ UNCHANGED <<fs, restMain>>

\* Line 347: create_brush_stroke_speaker() returns.
MainBrush ==
    /\ mn.pc = "brush"
    /\ fs' = Saved(fs, "textures", SpeakerBrush)
    /\ mn' = [pc |-> "report", k |-> 1, call |-> <<"create_brush_stroke_speaker">>]
    /\ UNCHANGED restMain

\* Line 347 raises.
MainBrushRaises ==
    /\ mn.pc = "brush"
    /\ mn' = [mn EXCEPT !.pc = "raised", !.call = <<"create_brush_stroke_speaker">>]
    /\ UNCHANGED <<fs, restMain>>

\* Lines 349-351: the closing prints, and main returns.
MainReturn ==
    /\ mn.pc = "report"
    /\ mn' = [mn EXCEPT !.pc = "done"]
    /\ UNCHANGED <<fs, restMain>>

NextMain ==
    \/ MainScene \/ MainSceneRaises \/ MainTexture \/ MainTextureRaises
    \/ MainBrush \/ MainBrushRaises \/ MainReturn

SpecMain == InitMain /\ [][NextMain]_vars

\* The files written into a directory so far, and how often each.
WrittenTo(dir) ==
    { fs.writes[k][2] : k \in { j \in DOMAIN fs.writes : fs.writes[j][1] = dir } }
TimesWritten(dir, name) ==
    Cardinality({ k \in DOMAIN fs.writes : fs.writes[k] = <<dir, name>> })

\* C5: a run of main that completes has written exactly 10 distinct files
\* into backgrounds/, one per scene of the catalog, and exactly 7 distinct
\* files into textures/, the 6 declared textures and speaker_brush, each
\* exactly once; and when an entry raises, the entries before it are the
\* only ones that were generated.
C5_WholeCatalog ==
    /\ mn.pc \in {"report", "done"} =>
          /\ Cardinality(WrittenTo("backgrounds")) = 10
          /\ WrittenTo("backgrounds")
               = { SceneCatalog[k].name : k \in DOMAIN SceneCatalog }
          /\ Cardinality(WrittenTo("textures")) = 7
          /\ WrittenTo("textures")
               = { TextureCatalog[k].name : k \in DOMAIN TextureCatalog }
                 \cup {SpeakerBrush}
          /\ Len(fs.writes) = 17
          /\ \A k \in DOMAIN fs.writes :
                TimesWritten(fs.writes[k][1], fs.writes[k][2]) = 1
          /\ WrittenTo("backgrounds") \subseteq fs.backgrounds
          /\ WrittenTo("textures") \subseteq fs.textures
    /\ mn.pc = "raised" =>
          \E n \in 0 .. 16 :
             /\ fs.writes = SubSeq(MainWrites, 1, n)
             /\ mn.call[1] = "create_brush_stroke_speaker" => n = 16
             /\ mn.call[1] # "create_brush_stroke_speaker" =>
                   mn.call[2] = MainWrites[n + 1][2]

\* A run on empty directories that completed.
C5_Witness ==
    /\ mn.pc = "done"
    /\ Cardinality(fs.backgrounds) = 10
    /\ Cardinality(fs.textures) = 7
    /\ Len(fs.writes) = 17

\* A run aborted by its second texture, after 11 files.
C5_WitnessAbort ==
    /\ mn.pc = "raised"
    /\ mn.call[1] = "create_ui_texture" /\ mn.call[2] = "inv_slot_empty"
    /\ Len(fs.writes) = 11

----------------------------------------------------------------------------
(* create_ui_texture, lines 171-226                                        *)

\* The canvas is followed at two pixels, probes[1] and probes[2]: px[k] is
\* the canvas value at probes[k], ink[k] the colour the inventory loop
\* handed to putpixel for it, dark[k] the darkening term computed for it
\* (-1 before), and fill the colour last handed to a drawing call.

Styles == {"rough", "brushstroke", "inventory"}

\* The value the RGBA canvas keeps for a channel handed to putpixel or to a
\* drawing call: one byte, saturated at both ends.
Clip8(c) == Max(0, Min(255, c))
Stored(color) == [k \in DOMAIN color |-> Clip8(color[k])]

\* Line 204: center_x, center_y = width // 2, height // 2
CenterCeil(n) == (n + 1) \div 2
Center(n) == n \div 2

\* Lines 207-208: the argument of math.sqrt.
DistSquared(x, y, center_x, center_y) ==
    (x - center_x) * (x - center_x) + (y - center_y) * (y - center_y)

\* Lines 207-209: darkness = int(30 * (dist / max_dist)), max_dist > 0
DarknessUnscaled(x, y, center_x, center_y) ==
    FTrunc(FDiv(FSqrtInt(DistSquared(x, y, center_x, center_y)),
                FSqrtInt(DistSquared(0, 0, center_x, center_y))))
Darkness(x, y, center_x, center_y) ==
    LET dist == FSqrtInt(DistSquared(x, y, center_x, center_y))
        max_dist == FSqrtInt(DistSquared(0, 0, center_x, center_y))
    IN  FTrunc(FMulInt(30, FDiv(dist, max_dist)))

\* Lines 210-212: one channel, max(0, base - darkness + dither)
InventoryChannel(c, darkness, dither) == Max(0, c - darkness + dither)

\* Line 217: alpha = int(30 * (1 - i / 20))
HighlightAlpha(i) == FTrunc(FMulInt(30, FSub(FInt(1), FDivInt(i, 20))))

\* Line 218: the line from (i, 0) to (0, i) is the diagonal x + y = i, both
\* ends included.
OnHighlight(p, i) == p[1] + p[2] = i

\* Lines 184 and 199: a pixel outside the bounding box of an ellipse is
\* not drawn; inside the box it is drawn or not, by the shape.
InBox(p, x0, y0, x1, y1) == x0 <= p[1] /\ p[1] <= x1 /\ y0 <= p[2] /\ p[2] <= y1
Covered(p, x0, y0, x1, y1) == IF InBox(p, x0, y0, x1, y1) THEN BOOLEAN ELSE {FALSE}

\* Line 182: tuple(max(0, c - darkness) for c in base_color)
Darker(color, darkness) == [k \in 1 .. 3 |-> Max(0, color[k] - darkness)]
\* Line 190: tuple(max(0, min(255, c + variation)) for c in base_color)
Varied(color, variation) == [k \in 1 .. 3 |-> Max(0, Min(255, color[k] + variation))]

\* The three dithers of lines 210-212, each one end of randint(-5, 5).
Dithers == Ends(-5, 5) \X Ends(-5, 5) \X Ends(-5, 5)

\* The 180-degree rotation of a pixel of a canvas, and its reflection
\* through the centre pixel.
Rot(p, width, height) == <<width - 1 - p[1], height - 1 - p[2]>>
Refl(p, width, height) ==
    <<2 * (width \div 2) - p[1], 2 * (height \div 2) - p[2]>>
InCanvas(p, width, height) ==
    0 <= p[1] /\ p[1] < width /\ 0 <= p[2] /\ p[2] < height

\* Square inventory canvases up to this side are run at every pixel.
MaxTexSide == 5

\* The calls: those of main, followed at the centre and one corner
\* (inventory) or at two neighbours (rough); small square inventory
\* canvases, followed at a pixel and its rotation or reflection; and small
\* canvases of every style and of a style the function does not know.
TextureArgs ==
    { [t |-> TextureCatalog[k],
       probes |-> << <<Center(TextureCatalog[k].width),
                       Center(TextureCatalog[k].height)>>, c >>] :
        k \in { j \in DOMAIN TextureCatalog : TextureCatalog[j].style = "inventory" },
        c \in { <<0, 0>>, <<63, 0>>, <<0, 63>>, <<63, 63>> } }
    \cup
    { [t |-> TextureCatalog[k], probes |-> << <<0, 0>>, <<1, 1>> >>] :
        k \in { j \in DOMAIN TextureCatalog : TextureCatalog[j].style = "rough" } }
    \cup
    UNION { { [t |-> [name |-> "t", width |-> w, height |-> w,
                      base_color |-> <<255, 128, 3>>, style |-> "inventory"],
               probes |-> <<p, q>>] :
                q \in { r \in {Rot(p, w, w), Refl(p, w, w)} : InCanvas(r, w, w) } } :
            w \in 1 .. MaxTexSide, p \in (0 .. MaxTexSide - 1) \X (0 .. MaxTexSide - 1) }
    \cup
    { [t |-> [name |-> "t", width |-> wh[1], height |-> wh[2],
              base_color |-> c, style |-> s],
       probes |-> << <<0, 0>>, <<1, 1>> >>] :
        wh \in { <<4, 4>>, <<7, 6>> },
        c \in { COLORS.earth_brown, <<255, 128, 3>> },
        s \in Styles \cup {"metal"} }

InitTexture ==
    /\ \E a \in { b \in TextureArgs :
                    \A k \in 1 .. 2 : InCanvas(b.probes[k], b.t.width, b.t.height) } :
         ut = [pc |-> "call", name |-> a.t.name, width |-> a.t.width,
               height |-> a.t.height, base_color |-> a.t.base_color,
               style |-> a.t.style, probes |-> a.probes,
               px |-> << <<>>, <<>> >>, ink |-> << <<>>, <<>> >>,
               dark |-> <<-1, -1>>, fill |-> <<>>, i |-> 0]
    /\ fs = EmptyDirs
    /\ an = Idle /\ cg = Idle /\ sil = Idle /\ sb = Idle /\ mn = Idle

\* Where control goes once the body of a style is over, and where it goes
\* from the top: into the body of the style, or past all three.  A loop
\* over an empty range is passed over.
AfterStyle == "noise"
Dispatch(f) ==
    IF f.style = "rough"
    THEN IF (f.width * f.height) \div 20 > 0 THEN "rough" ELSE AfterStyle
    ELSE IF f.style = "brushstroke"
    THEN IF f.height > 0 THEN "brushstroke" ELSE "edges"
    ELSE IF f.style = "inventory"
    THEN IF f.height > 0 /\ f.width > 0 THEN "inventory" ELSE "highlight"
    ELSE AfterStyle

\* Lines 173-201: the canvas is made, filled with the opaque base colour,
\* and the style is looked up.
TexBegin ==
    /\ ut.pc = "call"
    /\ ut' = [ut EXCEPT !.px = [k \in 1 .. 2 |-> ut.base_color \o <<255>>],
                        !.pc = Dispatch(ut)]
    /\ UNCHANGED <<fs, restTexture>>

\* Lines 178-184: one dark spot of the rough style.
RoughSpot ==
    /\ ut.pc = "rough"
    /\ \E x \in Ends(0, ut.width - 1), y \in Ends(0, ut.height - 1),
          darkness \in Ends(10, 40), size \in Ends(1, 4) :
         LET color == Darker(ut.base_color, darkness) \o <<200>>
             last == ut.i + 1 = (ut.width * ut.height) \div 20
         IN  \E c1 \in Covered(ut.probes[1], x, y, x + size, y + size),
                c2 \in Covered(ut.probes[2], x, y, x + size, y + size) :
               ut' = [ut EXCEPT !.fill = color,
                                !.px = << IF c1 THEN Stored(color) ELSE @[1],
                                          IF c2 THEN Stored(color) ELSE @[2] >>,
                                !.i = IF last THEN 0 ELSE @ + 1,
                                !.pc = IF last THEN AfterStyle ELSE @]
    /\ UNCHANGED <<fs, restTexture>>

\* Lines 188-193: one row of the brush stroke, from (0, y) to (width, y).
BrushLine ==
    /\ ut.pc = "brushstroke"
    /\ \E variation \in Ends(-15, 15), opacity \in Ends(-30, 30) :
         LET y == ut.i
             color == Varied(ut.base_color, variation) \o <<200 + opacity>>
             last == y + 1 = ut.height
         IN  ut' = [ut EXCEPT !.fill = color,
                              !.px = [k \in 1 .. 2 |->
                                        IF ut.probes[k][2] = y
                                        THEN Stored(color) ELSE ut.px[k]],
                              !.i = IF last THEN 0 ELSE @ + 1,
                              !.pc = IF last THEN "edges" ELSE @]
    /\ UNCHANGED <<fs, restTexture>>

\* Lines 196-199: one transparent notch at the left or the right edge.
BrushEdge ==
    /\ ut.pc = "edges"
    /\ \E x \in Ends(0, 10) \cup Ends(ut.width - 10, ut.width),
          y \in Ends(0, ut.height) :
         LET color == <<0, 0, 0, 0>>
             last == ut.i + 1 = 50
         IN  \E c1 \in Covered(ut.probes[1], x - 5, y - 5, x + 5, y + 5),
                c2 \in Covered(ut.probes[2], x - 5, y - 5, x + 5, y + 5) :
               ut' = [ut EXCEPT !.fill = color,
                                !.px = << IF c1 THEN Stored(color) ELSE @[1],
                                          IF c2 THEN Stored(color) ELSE @[2] >>,
                                !.i = IF last THEN 0 ELSE @ + 1,
                                !.pc = IF last THEN AfterStyle ELSE @]
    /\ UNCHANGED <<fs, restTexture>>

\* Lines 206-213: one row of the inventory style; the followed pixels of
\* the row get their darkening term, their three dithers and their colour.
InventoryRow ==
    /\ ut.pc = "inventory"
    /\ DistSquared(0, 0, Center(ut.width), Center(ut.height)) > 0
    /\ LET y == ut.i
           center_x == Center(ut.width)
           center_y == Center(ut.height)
           here(k) == ut.probes[k][2] = y
           last == y + 1 = ut.height
       IN  \E d1 \in IF here(1)
                     THEN {Darkness(ut.probes[1][1], y, center_x, center_y)}
                     ELSE {ut.dark[1]},
              d2 \in IF here(2)
                     THEN {Darkness(ut.probes[2][1], y, center_x, center_y)}
                     ELSE {ut.dark[2]} :
             \E t1 \in IF here(1) THEN Dithers ELSE {<<0, 0, 0>>} :
               \E t2 \in IF ~here(2) THEN {<<0, 0, 0>>}
                         ELSE IF ut.probes[2] = ut.probes[1] THEN {t1}
                         ELSE Dithers :
                 LET rgb(d, t) == [c \in 1 .. 3 |->
                                     InventoryChannel(ut.base_color[c], d, t[c])]
                                  \o <<255>>
                 IN  ut' = [ut EXCEPT
                              !.dark = <<d1, d2>>,
                              !.ink = << IF here(1) THEN rgb(d1, t1) ELSE @[1],
                                         IF here(2) THEN rgb(d2, t2) ELSE @[2] >>,
                              !.px = << IF here(1) THEN Stored(rgb(d1, t1)) ELSE @[1],
                                        IF here(2) THEN Stored(rgb(d2, t2)) ELSE @[2] >>,
                              !.i = IF last THEN 0 ELSE @ + 1,
                              !.pc = IF last THEN "highlight" ELSE @]
    /\ UNCHANGED <<fs, restTexture>>

\* Line 209 at the first pixel of a canvas whose centre is (0, 0):
\* max_dist is 0.0 and the division raises ZeroDivisionError.
InventoryRaises ==
    /\ ut.pc = "inventory"
    /\ DistSquared(0, 0, Center(ut.width), Center(ut.height)) = 0
    /\ ut' = [ut EXCEPT !.pc = "raised"]
    /\ UNCHANGED <<fs, restTexture>>

\* Lines 216-218: one line of the top-left highlight.
Highlight ==
    /\ ut.pc = "highlight"
    /\ LET color == COLORS.fog \o <<HighlightAlpha(ut.i)>>
           last == ut.i + 1 = 20
       IN  ut' = [ut EXCEPT !.fill = color,
                            !.px = [k \in 1 .. 2 |->
                                      IF OnHighlight(ut.probes[k], ut.i)
                                      THEN Stored(color) ELSE ut.px[k]],
                            !.i = IF last THEN 0 ELSE @ + 1,
                            !.pc = IF last THEN AfterStyle ELSE @]
    /\ UNCHANGED <<fs, restTexture>>

\* Line 221: img = add_noise(img, intensity=8)
TexNoise ==
    /\ ut.pc = "noise"
    /\ \E n1 \in Ends(-8, 8) :
         \E n2 \in IF ut.probes[2] = ut.probes[1] THEN {n1} ELSE Ends(-8, 8) :
           ut' = [ut EXCEPT !.px = << NoisePixel(@[1], n1), NoisePixel(@[2], n2) >>,
                            !.pc = "save"]
    /\ UNCHANGED <<fs, restTexture>>

\* Lines 223-224: img.save writes textures/<name>.png.
TexSave ==
    /\ ut.pc = "save"
    /\ fs' = Saved(fs, "textures", ut.name)
    /\ ut' = [ut EXCEPT !.pc = "return"]
    /\ UNCHANGED restTexture

\* img.save raises: the exception leaves the function.
TexSaveRaises ==
    /\ ut.pc = "save"
    /\ ut' = [ut EXCEPT !.pc = "raised"]
    /\ UNCHANGED <<fs, restTexture>>

\* Lines 225-226: return filepath.
TexReturn ==
    /\ ut.pc = "return"
    /\ ut' = [ut EXCEPT !.pc = "done"]
    /\ UNCHANGED <<fs, restTexture>>

NextTexture ==
    \/ TexBegin \/ RoughSpot \/ BrushLine \/ BrushEdge
    \/ InventoryRow \/ InventoryRaises \/ Highlight
    \/ TexNoise \/ TexSave \/ TexSaveRaises \/ TexReturn

SpecTexture == InitTexture /\ [][NextTexture]_vars

\* The canvas after the noise pass, as it is saved.
TexFinal == ut.pc \in {"save", "return", "done"}

\* C1 as stated: a call with a style that is none of the three has not
\* got past the style lookup: nothing was noise-injected, and no file was
\* written into textures/.
C1_UnknownStyleFails ==
    (ut.pc # "idle" /\ ut.style \notin Styles) =>
        /\ ~TexFinal
        /\ fs.writes = <<>>
        /\ ut.name \notin fs.textures

\* Both followed pixels of a square inventory canvas have their term.
BothTerms ==
    /\ ut.pc # "idle" /\ ut.style = "inventory" /\ ut.width = ut.height
    /\ ut.dark[1] >= 0 /\ ut.dark[2] >= 0

\* C7 as stated: on a square canvas of any side the darkening term of a
\* pixel equals the term of the 180-degree rotated pixel.
C7_AsStated ==
    (BothTerms /\ ut.probes[2] = Rot(ut.probes[1], ut.width, ut.height)) =>
        ut.dark[1] = ut.dark[2]

\* C7, amended: on a square canvas of side w the darkening term at (x, y)
\* equals the term at (2*(w//2) - x, 2*(w//2) - y), the pixel opposite
\* through the centre pixel (w//2, w//2), whenever that pixel is on the
\* canvas; this is the rotated pixel (w-1-x, w-1-y) when w is odd, and
\* (w-x, w-y) when w is even.
C7_CentreSymmetry ==
    BothTerms =>
        /\ (ut.width % 2 = 1 /\ ut.probes[2] = Rot(ut.probes[1], ut.width, ut.height))
              => ut.dark[1] = ut.dark[2]
        /\ (ut.width % 2 = 0
            /\ ut.probes[2] = <<ut.width - ut.probes[1][1], ut.height - ut.probes[1][2]>>)
              => ut.dark[1] = ut.dark[2]

\* Side 5, pixels (1, 0) and (3, 4): both terms are int(30 * sqrt(5/8)).
C7_Witness ==
    /\ BothTerms /\ ut.width = 5
    /\ ut.probes = << <<1, 0>>, <<3, 4>> >>
    /\ ut.dark = <<23, 23>>

\* inv_slot, finished, followed at its centre and at one of these corners.
InvSlotAt(corners) ==
    /\ ut.pc # "idle" /\ ut.name = "inv_slot" /\ TexFinal
    /\ ut.probes[1] = <<32, 32>> /\ ut.probes[2] \in corners
Brighter(p, q) == \A c \in 1 .. 3 : p[c] > q[c]

\* C8 as stated: the centre of the finished inv_slot is brighter in R, G
\* and B than each of its four corners.
C8_AsStated ==
    InvSlotAt({ <<0, 0>>, <<63, 0>>, <<0, 63>>, <<63, 63>> }) =>
        Brighter(ut.px[1], ut.px[2])

\* C8, amended: the centre pixel (32, 32) of the finished inv_slot is
\* brighter in R, G and B than each of the corners (63, 0), (0, 63) and
\* (63, 63), for every outcome of the dither and of the noise pass; the
\* corner (0, 0) is overwritten by the first highlight line.
C8_CentreBrighter ==
    InvSlotAt({ <<63, 0>>, <<0, 63>>, <<63, 63>> }) =>
        Brighter(ut.px[1], ut.px[2])

\* The closest the two get: the centre at its darkest (60 - 5 - 8) and the
\* corner (63, 63) at its brightest (60 - 29 + 5 + 8).
C8_Witness ==
    /\ InvSlotAt({ <<63, 63>> }) /\ ut.pc = "done"
    /\ ut.px[1][1] = 47 /\ ut.px[2][1] = 44
    /\ ut.dark = <<0, 29>>

\* C9 as stated: every colour computed and handed to the canvas has all
\* its channels in 0..255.
C9_ChannelsInRange ==
    ut.pc # "idle" =>
        /\ \A c \in DOMAIN ut.fill : InByte(ut.fill[c])
        /\ \A k \in 1 .. 2 : \A c \in DOMAIN ut.ink[k] : InByte(ut.ink[k][c])

====
